---- MODULE Spec2Model ----
(***************************************************************************)
(* State-machine model of the Supabase query builder of query_builder.go:  *)
(* one QueryBuilder, the chained configuration calls made on it, and the   *)
(* single network operation (a terminal operation of the builder, or       *)
(* Client.RPC) that ends the session.                                      *)
(***************************************************************************)
EXTENDS Integers, Sequences, FiniteSets, TLC

VARIABLES
    q,       \* the QueryBuilder: one field per field of the struct
    pc,      \* "building" | "done" (a network operation returned) | "panicked"
    nCalls,  \* number of configuration calls made on the builder
    pre,     \* the builder as it was before the last call
    last,    \* the last call: [op |-> name, args |-> its arguments]
    recent,  \* per overwriting setter, the arguments of its most recent call
    res,     \* what the network operation did: requests sent, error, destination
    url      \* the string returned by BuildURL, "" before it is called

vars == <<q, pc, nCalls, pre, last, recent, res, url>>

-----------------------------------------------------------------------------
(* Bounds of the model *)

MaxCalls == 3

-----------------------------------------------------------------------------
(* Go values passed as interface{}: tagged by dynamic type *)

IntV(n) == [kind |-> "int", int |-> n, str |-> "", list |-> <<>>]
StrV(s) == [kind |-> "string", int |-> 0, str |-> s, list |-> <<>>]
IntsV(l) == [kind |-> "[]int", int |-> 0, str |-> "", list |-> l]
StrsV(l) == [kind |-> "[]string", int |-> 0, str |-> "", list |-> l]

(* strconv-style decimal rendering of an int, as %d prints it *)
Digit(d) ==
    CASE d = 0 -> "0" [] d = 1 -> "1" [] d = 2 -> "2" [] d = 3 -> "3"
      [] d = 4 -> "4" [] d = 5 -> "5" [] d = 6 -> "6" [] d = 7 -> "7"
      [] d = 8 -> "8" [] d = 9 -> "9"

RECURSIVE Digits(_)
Digits(n) == IF n < 10 THEN Digit(n) ELSE Digits(n \div 10) \o Digit(n % 10)

FormatD(n) == IF n < 0 THEN "-" \o Digits(0 - n) ELSE Digits(n)

(* strings.Join(elems, sep) *)
RECURSIVE StringsJoin(_, _)
StringsJoin(elems, sep) ==
    IF Len(elems) = 0 THEN ""
    ELSE IF Len(elems) = 1 THEN elems[1]
    ELSE elems[1] \o sep \o StringsJoin(Tail(elems), sep)

RECURSIVE MapFormatD(_)
MapFormatD(l) ==
    IF Len(l) = 0 THEN <<>> ELSE <<FormatD(Head(l))>> \o MapFormatD(Tail(l))

(* fmt's %v verb: an int in decimal, a string as is, a slice as its         *)
(* elements separated by spaces inside square brackets                      *)
FormatV(v) ==
    CASE v.kind = "int" -> FormatD(v.int)
      [] v.kind = "string" -> v.str
      [] v.kind = "[]int" -> "[" \o StringsJoin(MapFormatD(v.list), " ") \o "]"
      [] v.kind = "[]string" -> "[" \o StringsJoin(v.list, " ") \o "]"

-----------------------------------------------------------------------------
(* The builder *)

NilMap == [isNil |-> TRUE, kv |-> {}]
NilClient == "nil"

NewQueryBuilder(table) ==
    [ table        |-> table,
      selectQuery  |-> "",
      filters      |-> <<>>,
      orFilters    |-> <<>>,
      andFilters   |-> <<>>,
      notFilters   |-> <<>>,
      orderQuery   |-> "",
      limitQuery   |-> "",
      offsetQuery  |-> "",
      rangeQuery   |-> "",
      countQuery   |-> "",
      singleResult |-> FALSE,
      headers      |-> NilMap,
      joins        |-> <<>>,
      rawQuery     |-> "",
      method       |-> "",
      client       |-> NilClient ]

From(table) == NewQueryBuilder(table)

(* Select that accumulates the columns of earlier calls *)
Select_acc(b, columns) ==
    [b EXCEPT !.selectQuery =
        IF @ = "" THEN StringsJoin(columns, ",")
        ELSE @ \o "," \o StringsJoin(columns, ",")]

Select(b, columns) == [b EXCEPT !.selectQuery = StringsJoin(columns, ",")]

(* the filter in the column=operator.value form *)
WhereFilter_eq(column, operator, value) ==
    column \o "=" \o operator \o "." \o FormatV(value)

WhereFilter(column, operator, value) ==
    column \o "." \o operator \o "." \o FormatV(value)

Where(b, column, operator, value) ==
    [b EXCEPT !.filters = Append(@, WhereFilter(column, operator, value))]

OrWhere(b, column, operator, value) ==
    [b EXCEPT !.filters =
        Append(@, "or(" \o column \o "." \o operator \o "." \o FormatV(value) \o ")")]

WhereRaw(b, condition) ==
    [b EXCEPT !.filters = Append(@, "and(" \o condition \o ")")]

Order(b, column, direction) ==
    [b EXCEPT !.orderQuery = "order=" \o column \o "." \o direction]

Limit(b, limit) == [b EXCEPT !.limitQuery = "limit=" \o FormatD(limit)]

Offset(b, offset) == [b EXCEPT !.offsetQuery = "offset=" \o FormatD(offset)]

Range(b, start, end) ==
    [b EXCEPT !.rangeQuery = "range=" \o FormatD(start) \o "-" \o FormatD(end)]

(* q.headers[key] = value: an assignment to an entry of a nil map panics *)
HeaderPanics(b) == b.headers.isNil

Header(b, key, value) ==
    [b EXCEPT !.headers.kv =
        {e \in @ : e[1] # key} \cup {<<key, value>>}]

Join(b, foreignTable, localColumn, operator, foreignColumn) ==
    [b EXCEPT !.joins = Append(@, [foreignTable  |-> foreignTable,
                                   localColumn   |-> localColumn,
                                   operator      |-> operator,
                                   foreignColumn |-> foreignColumn])]

InnerJoin(b, foreignTable, localColumn, foreignColumn) ==
    Join(b, foreignTable, localColumn, "eq", foreignColumn)

(* LeftJoin: the join is appended, then Header("Prefer", "missing=null") *)
LeftJoinJoined(b, foreignTable, localColumn, foreignColumn) ==
    Join(b, foreignTable, localColumn, "eq", foreignColumn)

LeftJoin(b, foreignTable, localColumn, foreignColumn) ==
    Header(LeftJoinJoined(b, foreignTable, localColumn, foreignColumn),
           "Prefer", "missing=null")

Raw(b, query) == [b EXCEPT !.rawQuery = query]

Count(b) == [b EXCEPT !.countQuery = "count=exact"]

Single(b) == [b EXCEPT !.singleResult = TRUE]

Filter(b, column, operator, value) == Where(b, column, operator, value)

Or(b, filters) ==
    IF Len(filters) > 0
    THEN [b EXCEPT !.orFilters = Append(@, "or=(" \o StringsJoin(filters, ",") \o ")")]
    ELSE b

And(b, filters) ==
    IF Len(filters) > 0
    THEN [b EXCEPT !.andFilters = Append(@, "and=(" \o StringsJoin(filters, ",") \o ")")]
    ELSE b

Not(b, column, operator, value) ==
    [b EXCEPT !.notFilters =
        Append(@, "not." \o column \o "=" \o operator \o "." \o FormatV(value))]

(* BuildURL with the range expression among the fragments *)
BuildURL_range(b) ==
    LET p1 == IF b.selectQuery # "" THEN <<b.selectQuery>> ELSE <<>>
        p2 == p1 \o b.filters
        p3 == IF b.orderQuery # "" THEN Append(p2, b.orderQuery) ELSE p2
        p4 == IF b.limitQuery # "" THEN Append(p3, b.limitQuery) ELSE p3
        p5 == IF b.offsetQuery # "" THEN Append(p4, b.offsetQuery) ELSE p4
        p6 == IF b.rangeQuery # "" THEN Append(p5, b.rangeQuery) ELSE p5
        p7 == IF b.countQuery # "" THEN Append(p6, b.countQuery) ELSE p6
    IN IF Len(p7) > 0 THEN "/" \o b.table \o "?" \o StringsJoin(p7, "&")
       ELSE "/" \o b.table

BuildURL(b) ==
    LET p1 == IF b.selectQuery # "" THEN <<b.selectQuery>> ELSE <<>>
        p2 == p1 \o b.filters
        p3 == IF b.orderQuery # "" THEN Append(p2, b.orderQuery) ELSE p2
        p4 == IF b.limitQuery # "" THEN Append(p3, b.limitQuery) ELSE p3
        p5 == IF b.offsetQuery # "" THEN Append(p4, b.offsetQuery) ELSE p4
        p6 == IF b.countQuery # "" THEN Append(p5, b.countQuery) ELSE p5
    IN IF Len(p6) > 0 THEN "/" \o b.table \o "?" \o StringsJoin(p6, "&")
       ELSE "/" \o b.table

-----------------------------------------------------------------------------
(* The HTTP exchange *)

MethodGet == "GET"
MethodPost == "POST"
MethodPatch == "PATCH"
MethodDelete == "DELETE"

BaseURL == "http://sb"
RowsBody == "[{\"id\":1,\"name\":\"John\"},{\"id\":2,\"name\":\"Jane\"}]"
GarbageBody == "<html>"
ErrorBody == "{\"message\":\"not found\"}"

(* What the server side does with a request that reaches it: the transport *)
(* fails, or a response comes back with an error or a success status.      *)
TransportFailure == [failed |-> TRUE, isError |-> FALSE, body |-> ""]
StatusError == [failed |-> FALSE, isError |-> TRUE, body |-> ErrorBody]
SuccessRows == [failed |-> FALSE, isError |-> FALSE, body |-> RowsBody]
SuccessGarbage == [failed |-> FALSE, isError |-> FALSE, body |-> GarbageBody]
NoResponse == [failed |-> FALSE, isError |-> FALSE, body |-> "(none)"]

Responses == {TransportFailure, StatusError, SuccessRows, SuccessGarbage}

(* The caller's variable and the argument made of it *)
Rows == << [id |-> 1, name |-> "John"], [id |-> 2, name |-> "Jane"] >>
CallerValue == << [id |-> 0, name |-> "Alice"] >>

NilArg == "nil"          \* the nil interface
ValueArg == "value"      \* the variable passed by value (a copy)
PointerArg == "pointer"  \* a pointer to the variable

NoBody == [kind |-> "none", query |-> "", payload |-> <<>>]
CallerBody(val) == [kind |-> "caller", query |-> "", payload |-> val]
(* sqlRequest{Query: q.rawQuery}, marshalled as {"query": <text>} *)
SqlRequest(query) == [kind |-> "sqlRequest", query |-> query, payload |-> <<>>]

NoError == [kind |-> "nil", msg |-> ""]
TransportError == [kind |-> "transport", msg |-> "dial tcp: connection refused"]
APIError(body) == [kind |-> "api", msg |-> "API error: " \o body]
UnsupportedMethod(method) ==
    [kind |-> "unsupported", msg |-> "unsupported HTTP method: " \o method]
SyntaxError == [kind |-> "decode", msg |-> "invalid character"]
InvalidUnmarshalError == [kind |-> "decode", msg |-> "json: Unmarshal(non-pointer)"]

(* encoding/json: the text is checked first, then the target must be a     *)
(* non-nil pointer, then the value is stored through it                    *)
JSONValid(body) == body = RowsBody
JSONParse(body) == IF body = RowsBody THEN Rows ELSE <<>>

Unmarshal(body, target, cur) ==
    IF ~JSONValid(body) THEN [err |-> SyntaxError, val |-> cur]
    ELSE IF target # PointerArg THEN [err |-> InvalidUnmarshalError, val |-> cur]
    ELSE [err |-> NoError, val |-> JSONParse(body)]

(* url.Values: key -> list of values; Set replaces the list, Add appends *)
ParamKeys == {"select", "and", "order", "limit", "offset", "count", "or", "not", "range"}
NoParams == [k \in ParamKeys |-> <<>>]
ParamSet(vals, key, value) == [vals EXCEPT ![key] = <<value>>]
ParamAdd(vals, key, value) == [vals EXCEPT ![key] = Append(@, value)]

SetHeader(hs, key, value) == {e \in hs : e[1] # key} \cup {<<key, value>>}

RECURSIVE JoinSelects(_)
JoinSelects(joins) ==
    IF Len(joins) = 0 THEN <<>>
    ELSE <<Head(joins).foreignTable \o "(*)">> \o JoinSelects(Tail(joins))

SelectParam(b, vals) ==
    LET v1 == IF b.selectQuery # "" THEN ParamSet(vals, "select", b.selectQuery)
              ELSE vals
    IN IF Len(b.joins) > 0
       THEN IF b.selectQuery # ""
            THEN ParamSet(v1, "select",
                     b.selectQuery \o "," \o StringsJoin(JoinSelects(b.joins), ","))
            ELSE ParamSet(v1, "select",
                     "*," \o StringsJoin(JoinSelects(b.joins), ","))
       ELSE v1

RECURSIVE FilterParams(_, _)
FilterParams(filters, vals) ==
    IF Len(filters) = 0 THEN vals
    ELSE FilterParams(Tail(filters), ParamAdd(vals, "and", Head(filters)))

(* serialization that also emits the grouped OR filters *)
QueryParams_grouped(b) ==
    LET v1 == FilterParams(b.filters, SelectParam(b, NoParams))
        v2 == IF Len(b.orFilters) > 0 THEN ParamSet(v1, "or", b.orFilters[1]) ELSE v1
        v3 == IF b.orderQuery # "" THEN ParamSet(v2, "order", b.orderQuery) ELSE v2
        v4 == IF b.limitQuery # "" THEN ParamSet(v3, "limit", b.limitQuery) ELSE v3
    IN IF b.offsetQuery # "" THEN ParamSet(v4, "offset", b.offsetQuery) ELSE v4

QueryParams(b) ==
    LET v1 == SelectParam(b, NoParams)
        v2 == FilterParams(b.filters, v1)
        v3 == IF b.orderQuery # "" THEN ParamSet(v2, "order", b.orderQuery) ELSE v2
        v4 == IF b.limitQuery # "" THEN ParamSet(v3, "limit", b.limitQuery) ELSE v3
    IN IF b.offsetQuery # "" THEN ParamSet(v4, "offset", b.offsetQuery) ELSE v4

RequestHeaders(b) ==
    IF b.rawQuery = "" /\ b.rangeQuery # ""
    THEN SetHeader(b.headers.kv, "Range", b.rangeQuery)
    ELSE b.headers.kv

Endpoint(b) ==
    IF b.rawQuery # "" THEN BaseURL \o "/rest/v1/rpc/execute_sql"
    ELSE BaseURL \o "/rest/v1/" \o b.table

(* the method forced by the raw-query branch *)
RawMethod == MethodPost

(* execute that keeps the builder's method in the raw-query branch *)
ExecMethod_keep(b) == b.method

ExecMethod(b) == IF b.rawQuery # "" THEN RawMethod ELSE b.method

(* the value execute works on: the caller's argument, or the local         *)
(* sqlRequest value that replaces it in the raw-query branch                *)
(* execute that unmarshals into the caller's argument in the raw branch too *)
ExecTarget_keep(b, arg) == arg

ExecTarget(b, arg) == IF b.rawQuery # "" THEN ValueArg ELSE arg

RequestBody(b, arg, val) ==
    IF b.rawQuery # "" THEN SqlRequest(b.rawQuery)
    ELSE IF arg = NilArg THEN NoBody ELSE CallerBody(val)

Request(b, arg, val) ==
    LET m == ExecMethod(b) IN
    [ method   |-> m,
      endpoint |-> Endpoint(b),
      params   |-> IF b.rawQuery = "" THEN QueryParams(b) ELSE NoParams,
      headers  |-> RequestHeaders(b),
      body     |-> IF m \in {MethodPost, MethodPatch}
                   THEN RequestBody(b, arg, val) ELSE NoBody ]

Supported(method) == method \in {MethodGet, MethodPost, MethodPatch, MethodDelete}

(* whether the response body is unmarshalled: GET and POST with non-nil data *)
Decodes(method, target) == method \in {MethodGet, MethodPost} /\ target # NilArg

(* execute(data): nilOk says whether the Client methods called on the      *)
(* builder's client return when that client is nil; resp is what the        *)
(* server side does with the request                                        *)
execute(b, arg, val, nilOk, resp) ==
    LET b1 == [b EXCEPT !.method = ExecMethod(b)]
        target == ExecTarget(b, arg)
        un == Unmarshal(resp.body, target, val)
        quiet == [b |-> b1, panic |-> FALSE, sent |-> <<>>, err |-> NoError,
                  dest |-> val]
    IN IF b.client = NilClient /\ ~nilOk
       THEN [quiet EXCEPT !.b = b, !.panic = TRUE]
       ELSE IF ~Supported(b1.method)
       THEN [quiet EXCEPT !.err = UnsupportedMethod(b1.method)]
       ELSE LET out == [quiet EXCEPT !.sent = <<Request(b, arg, val)>>]
            IN IF resp.failed THEN [out EXCEPT !.err = TransportError]
               ELSE IF resp.isError THEN [out EXCEPT !.err = APIError(resp.body)]
               ELSE IF Decodes(b1.method, target)
               THEN [out EXCEPT !.err = un.err, !.dest = un.val]
               ELSE out

Get(b, arg, val, nilOk, resp) == execute(b, arg, val, nilOk, resp)

First(b, arg, val, nilOk, resp) == execute(Limit(b, 1), arg, val, nilOk, resp)

Insert(b, arg, val, nilOk, resp) ==
    execute([b EXCEPT !.method = MethodPost], arg, val, nilOk, resp)

Update(b, arg, val, nilOk, resp) ==
    execute([b EXCEPT !.method = MethodPatch], arg, val, nilOk, resp)

Delete(b, nilOk, resp) ==
    execute([b EXCEPT !.method = MethodDelete], NilArg, CallerValue, nilOk, resp)

Execute(b, arg, val) ==
    [b |-> b, panic |-> FALSE, sent |-> <<>>, err |-> NoError, dest |-> val]

RPC(procedure, params, arg, val) ==
    [panic |-> FALSE, sent |-> <<>>, err |-> NoError, dest |-> val]

-----------------------------------------------------------------------------
(* Inputs of the calls *)

TableName == "users"

SelectInputs == { <<"id", "name">>, <<"*">> }
WhereInputs ==
    { [column |-> "age", operator |-> "gt", value |-> IntV(18)],
      [column |-> "id", operator |-> "in", value |-> IntsV(<<1, 2, 3>>)] }
FilterInputs == { [column |-> "age", operator |-> "gt", value |-> IntV(18)] }
OrWhereInputs == { [column |-> "name", operator |-> "eq", value |-> StrV("Jane")] }
WhereRawInputs == { "age.gte.21" }
OrderInputs ==
    { [column |-> "created_at", direction |-> "desc"],
      [column |-> "id", direction |-> "asc.nullsfirst"] }
LimitInputs == { 0, 10 }
OffsetInputs == { 0, 20 }
RangeInputs == { [start |-> 0, end |-> 9], [start |-> 10, end |-> 19] }
HeaderInputs == { [key |-> "X-Client", value |-> "go"] }
JoinInputs ==
    { [foreignTable |-> "posts", localColumn |-> "id", operator |-> "eq",
       foreignColumn |-> "user_id"] }
RawInputs == { "select 1", "" }
OrInputs == { <<"name=eq.John", "name=eq.Jane">>, <<>> }
AndInputs == { <<"age=gte.18", "age=lte.65">> }
NotInputs ==
    { [column |-> "status", operator |-> "eq", value |-> StrV("inactive")],
      [column |-> "role", operator |-> "in", value |-> StrsV(<<"guest", "banned">>)] }
InsertArgs == { NilArg, ValueArg, PointerArg }
ResultArgs == { PointerArg }
RPCInputs == { [procedure |-> "get_user_by_id", params |-> [user_id |-> 1]] }

-----------------------------------------------------------------------------
(* The state machine *)

NotCalled == [called |-> FALSE, args |-> <<>>]
Called(args) == [called |-> TRUE, args |-> args]

NoResult ==
    [ sent |-> <<>>, err |-> NoError, dest |-> CallerValue, resp |-> NoResponse ]

Init ==
    /\ q = From(TableName)
    /\ pc = "building"
    /\ nCalls = 0
    /\ pre = From(TableName)
    /\ last = [op |-> "From", args |-> [table |-> TableName]]
    /\ recent = [Select |-> NotCalled, Order |-> NotCalled, Limit |-> NotCalled,
                 Offset |-> NotCalled, Range |-> NotCalled]
    /\ res = NoResult
    /\ url = ""

(* one configuration call that returns the builder *)
Configure(op, args, b2) ==
    /\ pc = "building"
    /\ nCalls < MaxCalls
    /\ q' = b2
    /\ pre' = q
    /\ last' = [op |-> op, args |-> args]
    /\ nCalls' = nCalls + 1
    /\ UNCHANGED <<pc, res, url>>

(* one configuration call that panics after leaving the builder as b2 *)
ConfigurePanic(op, args, b2) ==
    /\ pc = "building"
    /\ nCalls < MaxCalls
    /\ q' = b2
    /\ pre' = q
    /\ last' = [op |-> op, args |-> args]
    /\ nCalls' = nCalls + 1
    /\ pc' = "panicked"
    /\ UNCHANGED <<res, recent, url>>

SelectCall ==
    \E columns \in SelectInputs :
        /\ Configure("Select", [columns |-> columns], Select(q, columns))
        /\ recent' = [recent EXCEPT !.Select = Called(columns)]

WhereCall ==
    \E a \in WhereInputs :
        /\ Configure("Where", a, Where(q, a.column, a.operator, a.value))
        /\ UNCHANGED recent

OrWhereCall ==
    \E a \in OrWhereInputs :
        /\ Configure("OrWhere", a, OrWhere(q, a.column, a.operator, a.value))
        /\ UNCHANGED recent

WhereRawCall ==
    \E condition \in WhereRawInputs :
        /\ Configure("WhereRaw", [condition |-> condition], WhereRaw(q, condition))
        /\ UNCHANGED recent

OrderCall ==
    \E a \in OrderInputs :
        /\ Configure("Order", a, Order(q, a.column, a.direction))
        /\ recent' = [recent EXCEPT !.Order = Called(<<a.column, a.direction>>)]

LimitCall ==
    \E limit \in LimitInputs :
        /\ Configure("Limit", [limit |-> limit], Limit(q, limit))
        /\ recent' = [recent EXCEPT !.Limit = Called(<<limit>>)]

OffsetCall ==
    \E offset \in OffsetInputs :
        /\ Configure("Offset", [offset |-> offset], Offset(q, offset))
        /\ recent' = [recent EXCEPT !.Offset = Called(<<offset>>)]

RangeCall ==
    \E a \in RangeInputs :
        /\ Configure("Range", a, Range(q, a.start, a.end))
        /\ recent' = [recent EXCEPT !.Range = Called(<<a.start, a.end>>)]

HeaderCall ==
    \E a \in HeaderInputs :
        IF HeaderPanics(q)
        THEN ConfigurePanic("Header", a, q)
        ELSE /\ Configure("Header", a, Header(q, a.key, a.value))
             /\ UNCHANGED recent

JoinCall ==
    \E a \in JoinInputs :
        /\ Configure("Join", a,
               Join(q, a.foreignTable, a.localColumn, a.operator, a.foreignColumn))
        /\ UNCHANGED recent

InnerJoinCall ==
    \E a \in JoinInputs :
        /\ Configure("InnerJoin", a,
               InnerJoin(q, a.foreignTable, a.localColumn, a.foreignColumn))
        /\ UNCHANGED recent

LeftJoinCall ==
    \E a \in JoinInputs :
        LET joined == LeftJoinJoined(q, a.foreignTable, a.localColumn, a.foreignColumn)
        IN IF HeaderPanics(joined)
           THEN ConfigurePanic("LeftJoin", a, joined)
           ELSE /\ Configure("LeftJoin", a,
                      LeftJoin(q, a.foreignTable, a.localColumn, a.foreignColumn))
                /\ UNCHANGED recent

RawCall ==
    \E query \in RawInputs :
        /\ Configure("Raw", [query |-> query], Raw(q, query))
        /\ UNCHANGED recent

CountCall ==
    /\ Configure("Count", <<>>, Count(q))
    /\ UNCHANGED recent

SingleCall ==
    /\ Configure("Single", <<>>, Single(q))
    /\ UNCHANGED recent

FilterCall ==
    \E a \in FilterInputs :
        /\ Configure("Filter", a, Filter(q, a.column, a.operator, a.value))
        /\ UNCHANGED recent

OrCall ==
    \E filters \in OrInputs :
        /\ Configure("Or", [filters |-> filters], Or(q, filters))
        /\ UNCHANGED recent

AndCall ==
    \E filters \in AndInputs :
        /\ Configure("And", [filters |-> filters], And(q, filters))
        /\ UNCHANGED recent

NotCall ==
    \E a \in NotInputs :
        /\ Configure("Not", a, Not(q, a.column, a.operator, a.value))
        /\ UNCHANGED recent

(* a network operation: it returns (or panics) and the session is over *)
Terminate(op, arg, b2, out, resp) ==
    /\ pc = "building"
    /\ q' = b2
    /\ pre' = q
    /\ last' = [op |-> op, args |-> [arg |-> arg]]
    /\ pc' = IF out.panic THEN "panicked" ELSE "done"
    /\ res' = [ sent |-> out.sent, err |-> out.err, dest |-> out.dest,
                resp |-> IF out.sent = <<>> THEN NoResponse ELSE resp ]
    /\ UNCHANGED <<nCalls, recent, url>>

(* what surrounds a call of execute: whether the Client methods return on  *)
(* the builder's nil client, and what the server side answers               *)
Envs ==
    { [nilOk |-> FALSE, resp |-> NoResponse] }
        \cup { [nilOk |-> TRUE, resp |-> r] : r \in Responses }

GetCall ==
    \E arg \in ResultArgs, env \in Envs :
        LET out == Get(q, arg, CallerValue, env.nilOk, env.resp)
        IN Terminate("Get", arg, out.b, out, env.resp)

FirstCall ==
    \E arg \in ResultArgs, env \in Envs :
        LET out == First(q, arg, CallerValue, env.nilOk, env.resp)
        IN Terminate("First", arg, out.b, out, env.resp)

InsertCall ==
    \E arg \in InsertArgs, env \in Envs :
        LET out == Insert(q, arg, CallerValue, env.nilOk, env.resp)
        IN Terminate("Insert", arg, out.b, out, env.resp)

UpdateCall ==
    \E arg \in ResultArgs, env \in Envs :
        LET out == Update(q, arg, CallerValue, env.nilOk, env.resp)
        IN Terminate("Update", arg, out.b, out, env.resp)

DeleteCall ==
    \E env \in Envs :
        LET out == Delete(q, env.nilOk, env.resp)
        IN Terminate("Delete", NilArg, out.b, out, env.resp)

ExecuteCall ==
    \E arg \in ResultArgs :
        LET out == Execute(q, arg, CallerValue)
        IN Terminate("Execute", arg, out.b, out, NoResponse)

RPCCall ==
    \E a \in RPCInputs, arg \in ResultArgs :
        LET out == RPC(a.procedure, a.params, arg, CallerValue)
        IN Terminate("RPC", arg, q, out, NoResponse)

(* BuildURL(): the builder is read, the string is handed to the caller *)
BuildURLCall ==
    /\ pc = "building"
    /\ url' = BuildURL(q)
    /\ pre' = q
    /\ last' = [op |-> "BuildURL", args |-> <<>>]
    /\ pc' = "done"
    /\ UNCHANGED <<q, nCalls, recent, res>>

Next ==
    \/ SelectCall \/ WhereCall \/ OrWhereCall \/ WhereRawCall \/ OrderCall
    \/ LimitCall \/ OffsetCall \/ RangeCall \/ HeaderCall \/ JoinCall
    \/ InnerJoinCall \/ LeftJoinCall \/ RawCall \/ CountCall \/ SingleCall
    \/ FilterCall \/ OrCall \/ AndCall \/ NotCall
    \/ GetCall \/ FirstCall \/ InsertCall \/ UpdateCall \/ DeleteCall
    \/ ExecuteCall \/ RPCCall \/ BuildURLCall

Spec == Init /\ [][Next]_vars

-----------------------------------------------------------------------------
(* Properties *)

BuilderTerminals == {"Get", "First", "Insert", "Update", "Delete", "Execute"}
ExecuteTerminals == {"Get", "First", "Insert", "Update", "Delete"}
NetworkOps == BuilderTerminals \cup {"RPC"}

Returned(ops) == pc = "done" /\ last.op \in ops

SeqRange(seq) == {seq[i] : i \in 1..Len(seq)}

(* the text of a scalar value, written without the model's formatting *)
ScalarText(v) == IF v.kind = "int" THEN ToString(v.int) ELSE v.str
IsScalar(v) == v.kind \in {"int", "string"}

RECURSIVE CommaList(_)
CommaList(items) ==
    IF Len(items) = 0 THEN ""
    ELSE IF Len(items) = 1 THEN items[1]
    ELSE CommaList(SubSeq(items, 1, Len(items) - 1)) \o "," \o items[Len(items)]

ElementTexts(v) ==
    [i \in 1..Len(v.list) |->
        IF v.kind = "[]int" THEN ToString(v.list[i]) ELSE v.list[i]]

(* C1: every terminal operation of the builder that returns has performed  *)
(* exactly one HTTP round trip.                                            *)
C1_OneRoundTrip == Returned(BuilderTerminals) => Len(res.sent) = 1

ExpectedMethod(op) ==
    CASE op = "Insert" -> "POST" [] op = "Update" -> "PATCH"
      [] op = "Delete" -> "DELETE" [] OTHER -> "GET"

(* C2: without a raw query, a terminal operation that returns has          *)
(* dispatched one request with GET (Get, First), POST (Insert), PATCH      *)
(* (Update) or DELETE (Delete), and never ends in the unsupported-method   *)
(* error.                                                                  *)
C2_MethodOfTerminal ==
    (Returned(ExecuteTerminals) /\ pre.rawQuery = "") =>
        /\ res.err.kind # "unsupported"
        /\ Len(res.sent) = 1
        /\ res.sent[1].method = ExpectedMethod(last.op)

(* C3: Execute(dest) does what Get(dest) does on the same builder: the     *)
(* same request, the same error, the same destination value.               *)
C3_ExecuteIsGet ==
    Returned({"Execute"}) =>
        \A env \in Envs :
            LET g == Get(pre, last.args.arg, CallerValue, env.nilOk, env.resp)
            IN ~g.panic =>
                  /\ res.sent = g.sent
                  /\ res.err = g.err
                  /\ res.dest = g.dest

(* C4: with a non-empty raw query set, every terminal operation that       *)
(* returns has sent exactly one request: a POST to the rpc/execute_sql     *)
(* endpoint with body {"query": <raw text>}, no query parameter and no     *)
(* Range header, whatever else the builder accumulated.                    *)
C4_RawRequest ==
    (Returned(ExecuteTerminals) /\ pre.rawQuery # "") =>
        /\ Len(res.sent) = 1
        /\ res.sent[1].method = "POST"
        /\ res.sent[1].endpoint = "http://sb/rest/v1/rpc/execute_sql"
        /\ res.sent[1].body = [kind |-> "sqlRequest", query |-> pre.rawQuery,
                               payload |-> <<>>]
        /\ \A k \in ParamKeys : res.sent[1].params[k] = <<>>
        /\ \A h \in res.sent[1].headers : h[1] # "Range"

C4_Witness ==
    /\ Returned({"Update"})
    /\ pre.rawQuery # ""
    /\ Len(pre.filters) > 0
    /\ pre.rangeQuery # ""
    /\ Len(res.sent) = 1

(* C5: once the request is sent, a transport error is returned as is; an   *)
(* error status gives an API error with the response body and leaves the   *)
(* destination alone; on success Get, First and Insert decode the body     *)
(* into the caller's destination (or return a decode error), and Update    *)
(* and Delete return nil and leave their argument alone.                   *)
C5_Outcome ==
    (Returned(ExecuteTerminals) /\ Len(res.sent) = 1) =>
        /\ res.resp.failed => res.err.kind = "transport"
        /\ (~res.resp.failed /\ res.resp.isError) =>
              /\ res.err = [kind |-> "api", msg |-> "API error: " \o res.resp.body]
              /\ res.dest = CallerValue
        /\ (~res.resp.failed /\ ~res.resp.isError) =>
              /\ (last.op \in {"Get", "First", "Insert"} /\ last.args.arg # NilArg) =>
                    \/ res.err.kind = "nil" /\ res.dest = Rows
                    \/ /\ res.err.kind = "decode"
                       /\ res.resp.body # RowsBody \/ last.args.arg # PointerArg
              /\ last.op \in {"Update", "Delete"} =>
                    res.err.kind = "nil" /\ res.dest = CallerValue

(* C6: an RPC call that returns nil has sent one POST and has filled the   *)
(* result from the response.                                               *)
C6_RPCRoundTrip ==
    (Returned({"RPC"}) /\ res.err.kind = "nil") =>
        /\ Len(res.sent) = 1
        /\ res.sent[1].method = "POST"
        /\ res.dest # CallerValue

GroupedStrings ==
    SeqRange(q.orFilters) \cup SeqRange(q.andFilters) \cup SeqRange(q.notFilters)

RequestStrings(r) ==
    {r.endpoint, r.body.query}
        \cup UNION {SeqRange(r.params[k]) : k \in ParamKeys}
        \cup {h[1] : h \in r.headers} \cup {h[2] : h \in r.headers}

C9_ArrayValue ==
    /\ (last.op \in {"Where", "Filter"} /\ ~IsScalar(last.args.value)) =>
          q.filters[Len(q.filters)] =
              last.args.column \o "." \o last.args.operator \o "."
                  \o "(" \o CommaList(ElementTexts(last.args.value)) \o ")"
    /\ (last.op = "Not" /\ ~IsScalar(last.args.value)) =>
          q.notFilters[Len(q.notFilters)] =
              "not." \o last.args.column \o "=" \o last.args.operator \o "."
                  \o "(" \o CommaList(ElementTexts(last.args.value)) \o ")"

RECURSIVE AmpList(_)
AmpList(items) ==
    IF Len(items) = 0 THEN ""
    ELSE IF Len(items) = 1 THEN items[1]
    ELSE AmpList(SubSeq(items, 1, Len(items) - 1)) \o "&" \o items[Len(items)]

NonEmpty(s) == s # ""

(* the fragments of the claim, in its fixed order, empty ones left out *)
URLFragments(b) ==
    SelectSeq(<<b.selectQuery>> \o b.filters
                  \o <<b.orderQuery, b.limitQuery, b.offsetQuery, b.countQuery>>,
              NonEmpty)

C12_CountInRequest ==
    /\ last.op = "Count" => q.countQuery = "count=exact"
    /\ (Returned({"Get", "First"}) /\ pre.countQuery # "" /\ pre.rawQuery = "") =>
          /\ Len(res.sent) = 1
          /\ \/ "count=exact" \in RequestStrings(res.sent[1])
             \/ "exact" \in RequestStrings(res.sent[1])

(* the same for every request a terminal operation sends without raw query *)
C12_CountInAnyRequest ==
    (Returned(ExecuteTerminals) /\ pre.countQuery # "" /\ pre.rawQuery = ""
        /\ Len(res.sent) = 1) =>
          \/ "count=exact" \in RequestStrings(res.sent[1])
          \/ "exact" \in RequestStrings(res.sent[1])

(* C13: Header(key, value) completes and leaves key mapped to value with   *)
(* the other keys as they were; LeftJoin completes, appends one join with  *)
(* operator "eq" and sets the Prefer header.                               *)
C13_HeaderCompletes ==
    /\ last.op = "Header" =>
          /\ pc # "panicked"
          /\ <<last.args.key, last.args.value>> \in q.headers.kv
          /\ {e \in q.headers.kv : e[1] # last.args.key}
                = {e \in pre.headers.kv : e[1] # last.args.key}
    /\ last.op = "LeftJoin" =>
          /\ pc # "panicked"
          /\ Len(q.joins) = Len(pre.joins) + 1
          /\ q.joins[Len(q.joins)].operator = "eq"
          /\ <<"Prefer", "missing=null">> \in q.headers.kv

(* C14: with a non-empty raw query no terminal operation writes the       *)
(* caller's destination, whatever the response; on a success status the    *)
(* response body is unmarshalled into the local request body value, which  *)
(* is not a pointer, so the call returns the decoder's error.              *)
C14_RawLeavesDestination ==
    (last.op \in ExecuteTerminals /\ pre.rawQuery # "") =>
        /\ res.dest = CallerValue
        /\ (pc = "done" /\ ~res.resp.failed /\ ~res.resp.isError) =>
              res.err.kind = "decode"

C14_Witness ==
    /\ Returned({"Get"})
    /\ pre.rawQuery # ""
    /\ last.args.arg = PointerArg
    /\ Len(res.sent) = 1
    /\ res.resp = SuccessRows
    /\ res.dest = CallerValue

====
